---------------------------- MODULE Spec2Model ----------------------------
(***************************************************************************)
(* A model of the Barstool Sports data pipeline: the JSONL reader with its *)
(* nested-field flattener and column-union builder, the HTML table reader, *)
(* the BigQuery loader and the Prefect flow that sequences them.           *)
(***************************************************************************)
EXTENDS Integers, Sequences, FiniteSets, TLC

VARIABLES
    record,         \* parse_nested_json_fields: the record argument
    nested_fields,  \* parse_nested_json_fields: the nested_fields argument
    flat,           \* parse_nested_json_fields: its outcome
    data,           \* jsonl_reader.convert_to_table: the data argument
    table,          \* jsonl_reader.convert_to_table: its outcome
    html_file,      \* read_html_file: the document read
    html_table,     \* read_html_file: its outcome
    proc,           \* the invocations in progress, one per caller
    jobs,           \* the BigQuery load job of each caller
    dest,           \* the rows of each destination table, as load batches
    ncalls          \* the number of invocations made so far

flattenVars == <<record, nested_fields, flat>>

tableVars == <<data, table>>

htmlVars == <<html_file, html_table>>

sysVars == <<proc, jobs, dest, ncalls>>

vars == <<flattenVars, tableVars, htmlVars, sysVars>>

(***************************************************************************)
(* Python str.  A string is a sequence of atoms.  An atom is a run of      *)
(* characters that the model never splits (a word, a digit, a punctuation  *)
(* mark), or, inside JSON text, a whole string literal "..." whose content *)
(* is again a string.  The underscore is always an atom of its own, so the *)
(* f-string f"{k}_{subk}" is a real concatenation.                         *)
(***************************************************************************)
C(c) == [k |-> "c", c |-> c, s |-> <<>>]

Lit(s) == [k |-> "lit", c |-> "", s |-> s]

Word(w) == <<C(w)>>

(***************************************************************************)
(* Python values as json.loads builds them.  m holds the items of a dict   *)
(* (in insertion order, keys unique) or the elements of a list.            *)
(***************************************************************************)
VNull == [t |-> "null", s |-> <<>>, m |-> <<>>]

VBool(w) == [t |-> "bool", s |-> Word(w), m |-> <<>>]

VNum(d) == [t |-> "num", s |-> Word(d), m |-> <<>>]

VStr(s) == [t |-> "str", s |-> s, m |-> <<>>]

VObj(items) == [t |-> "obj", s |-> <<>>, m |-> items]

VArr(elems) == [t |-> "arr", s |-> <<>>, m |-> [i \in 1..Len(elems) |-> [k |-> <<>>, v |-> elems[i]]]]

Item(k, v) == [k |-> k, v |-> v]

(***************************************************************************)
(* Python dict, as a sequence of items with unique keys.                   *)
(***************************************************************************)
Keys(d) == {d[i].k : i \in 1..Len(d)}

Has(d, k) == \E i \in 1..Len(d) : d[i].k = k

Get(d, k) == d[CHOOSE i \in 1..Len(d) : d[i].k = k].v

\* A faulty variant of DictSet, against which the properties are validated:
\* a key that is already there keeps its value.
DictSet_KeepFirst(d, k, v) == IF Has(d, k) THEN d ELSE Append(d, Item(k, v))

\* d[k] = v: an existing key keeps its place, a new key goes last.
DictSet(d, k, v) ==
    IF Has(d, k)
    THEN [i \in 1..Len(d) |-> IF d[i].k = k THEN Item(k, v) ELSE d[i]]
    ELSE Append(d, Item(k, v))

\* del d[k], for a key that is present.
DictDel(d, k) == SelectSeq(d, LAMBDA e : e.k # k)

(***************************************************************************)
(* json.dumps (without whitespace) and json.loads over these strings.      *)
(***************************************************************************)
Digits == {"0", "1", "2", "3", "4", "5", "6", "7", "8", "9"}

RECURSIVE Dumps(_)
RECURSIVE DumpItems(_, _, _)
DumpItems(m, i, isObj) ==
    IF i > Len(m) THEN <<>>
    ELSE (IF i > 1 THEN <<C(",")>> ELSE <<>>)
         \o (IF isObj THEN <<Lit(m[i].k), C(":")>> ELSE <<>>)
         \o Dumps(m[i].v)
         \o DumpItems(m, i + 1, isObj)

Dumps(v) ==
    CASE v.t = "null" -> Word("null")
      [] v.t = "bool" -> v.s
      [] v.t = "num"  -> v.s
      [] v.t = "str"  -> <<Lit(v.s)>>
      [] v.t = "obj"  -> <<C("{")>> \o DumpItems(v.m, 1, TRUE) \o <<C("}")>>
      [] v.t = "arr"  -> <<C("[")>> \o DumpItems(v.m, 1, FALSE) \o <<C("]")>>

\* The outcome of parsing one value: ok, the value, the next position.
PFail == [ok |-> FALSE, v |-> VNull, i |-> 0]

POk(v, i) == [ok |-> TRUE, v |-> v, i |-> i]

IsC(t, i, c) == i <= Len(t) /\ t[i].k = "c" /\ t[i].c = c

RECURSIVE ParseValue(_, _)
RECURSIVE ParseMembers(_, _, _)
RECURSIVE ParseElements(_, _, _)
\* After the member key: value r has been parsed; a comma or the closing brace
\* follows.  A repeated key keeps its place and takes the later value.
AfterMember(t, key, r, acc) ==
    IF ~r.ok THEN PFail
    ELSE IF IsC(t, r.i, ",") THEN ParseMembers(t, r.i + 1, DictSet(acc, key, r.v))
    ELSE IF IsC(t, r.i, "}") THEN POk(VObj(DictSet(acc, key, r.v)), r.i + 1)
    ELSE PFail

ParseMembers(t, i, acc) ==
    IF i + 1 <= Len(t) /\ t[i].k = "lit" /\ IsC(t, i + 1, ":")
    THEN AfterMember(t, t[i].s, ParseValue(t, i + 2), acc)
    ELSE PFail

AfterElement(t, r, acc) ==
    IF ~r.ok THEN PFail
    ELSE IF IsC(t, r.i, ",") THEN ParseElements(t, r.i + 1, Append(acc, r.v))
    ELSE IF IsC(t, r.i, "]") THEN POk(VArr(Append(acc, r.v)), r.i + 1)
    ELSE PFail

ParseElements(t, i, acc) == AfterElement(t, ParseValue(t, i), acc)

ParseValue(t, i) ==
    IF i > Len(t) THEN PFail
    ELSE IF t[i].k = "lit" THEN POk(VStr(t[i].s), i + 1)
    ELSE IF t[i].c \in Digits THEN POk(VNum(t[i].c), i + 1)
    ELSE IF t[i].c \in {"true", "false"} THEN POk(VBool(t[i].c), i + 1)
    ELSE IF t[i].c = "null" THEN POk(VNull, i + 1)
    ELSE IF t[i].c = "{"
         THEN IF IsC(t, i + 1, "}") THEN POk(VObj(<<>>), i + 2)
              ELSE ParseMembers(t, i + 1, <<>>)
    ELSE IF t[i].c = "["
         THEN IF IsC(t, i + 1, "]") THEN POk(VArr(<<>>), i + 2)
              ELSE ParseElements(t, i + 1, <<>>)
    ELSE PFail

\* json.loads(text): ok = FALSE stands for json.JSONDecodeError.
WholeText(text, r) ==
    IF r.ok /\ r.i = Len(text) + 1 THEN [ok |-> TRUE, v |-> r.v]
    ELSE [ok |-> FALSE, v |-> VNull]

JsonLoads(text) == WholeText(text, ParseValue(text, 1))

(***************************************************************************)
(* parse_nested_json_fields.  An outcome is the exception raised ("none"   *)
(* when the call returns) and the returned dict.                           *)
(***************************************************************************)
Returned(result) == [exc |-> "none", result |-> result]

Raised(e) == [exc |-> e, result |-> <<>>]

Pending == [exc |-> "pending", result |-> <<>>]

\* A faulty variant of EmitSubItems, against which the properties are
\* validated: the object itself is written under its key, no sub-key emitted.
EmitSubItems_Whole(result, k, sub, j) == DictSet(result, k, VObj(sub))

\* for subk, subv in v.items(): result[f"{k}_{subk}"] = subv
RECURSIVE EmitSubItems(_, _, _, _)
EmitSubItems(result, k, sub, j) ==
    IF j > Len(sub) THEN result
    ELSE EmitSubItems(DictSet(result, k \o <<C("_")>> \o sub[j].k, sub[j].v), k, sub, j + 1)

\* for k, v in nested_data.items(): ...
RECURSIVE EmitItems(_, _, _)
EmitItems(result, items, j) ==
    IF j > Len(items) THEN result
    ELSE LET k == items[j].k
             v == items[j].v
         IN  IF v.t = "obj"
             THEN EmitItems(EmitSubItems(result, k, v.m, 1), items, j + 1)
             ELSE EmitItems(DictSet(result, k, v), items, j + 1)

\* A faulty variant of DelField, against which the properties are validated: the del statement left out.
DelField_Kept(result, field) == Returned(result)

\* del result[field]: KeyError when the key is not there.
DelField(result, field) ==
    IF Has(result, field) THEN Returned(DictDel(result, field)) ELSE Raised("KeyError")

\* The try block, given what json.loads made of record[field].
TryItems(result, field, nested_data) ==
    IF ~nested_data.ok THEN Returned(result)                 \* except JSONDecodeError: pass
    ELSE IF nested_data.v.t # "obj" THEN Raised("AttributeError")   \* no .items()
    ELSE DelField(EmitItems(result, nested_data.v.m, 1), field)

\* One iteration of the loop over nested_fields, on the result so far.
ParseField(rec, result, field) ==
    IF ~(Has(rec, field) /\ Get(rec, field).t = "str")
    THEN Returned(result)
    ELSE TryItems(result, field, JsonLoads(Get(rec, field).s))

RECURSIVE ParseFields(_, _, _, _)
\* The loop goes on unless the iteration raised.
NextField(rec, o, fields, i) ==
    IF o.exc # "none" THEN o ELSE ParseFields(rec, o.result, fields, i + 1)

ParseFields(rec, result, fields, i) ==
    IF i > Len(fields) THEN Returned(result)
    ELSE NextField(rec, ParseField(rec, result, fields[i]), fields, i)

parse_nested_json_fields(rec, fields) == ParseFields(rec, rec, fields, 1)

(***************************************************************************)
(* pa.Table: the columns in order, each a name and its values.  An outcome *)
(* of a reader is the exception raised ("none" when it returns) and the    *)
(* table.                                                                  *)
(***************************************************************************)
Column(name, values) == [name |-> name, values |-> values]

TableOf(cols) == [exc |-> "none", cols |-> cols]

TableRaised(e) == [exc |-> e, cols |-> <<>>]

NoTable == [exc |-> "pending", cols |-> <<>>]

NumRows(t) == IF t.cols = <<>> THEN 0 ELSE Len(t.cols[1].values)

(***************************************************************************)
(* jsonl_reader.convert_to_table.  keys is a Python set, so the order of   *)
(* the columns is whatever order the set iterates in.                      *)
(***************************************************************************)
\* A faulty variant of KeyUnion, against which the properties are validated: the keys of the first record only.
KeyUnion_First(rows) == IF rows = <<>> THEN {} ELSE Keys(rows[1])

KeyUnion(rows) == UNION {Keys(rows[i]) : i \in 1..Len(rows)}

\* The orders a set can iterate in.
Orders(S) == {o \in [1..Cardinality(S) -> S] : \A i, j \in DOMAIN o : o[i] = o[j] => i = j}

\* row.get(k)
DictGet(d, k) == IF Has(d, k) THEN Get(d, k) ELSE VNull

jsonl_convert_to_table(rows, order) ==
    TableOf([c \in 1..Len(order) |->
                Column(order[c], [i \in 1..Len(rows) |-> DictGet(rows[i], order[c])])])

(***************************************************************************)
(* HTML documents as lxml parses them.  A document holds tables; a table   *)
(* holds, in document order, tr children and row sections (thead, tbody)   *)
(* with tr children of their own; a row holds td and th cells; a cell      *)
(* holds the text nodes that are its direct children (none when the cell   *)
(* is empty, several when markup such as <br> splits the text).            *)
(***************************************************************************)
NoDoc == [kind |-> "none", tables |-> <<>>]

\* A file of no bytes: html.parse raises on it.
EmptyFile == [kind |-> "empty", tables |-> <<>>]

Doc(tables) == [kind |-> "html", tables |-> tables]

Td(texts) == [tag |-> "td", texts |-> texts]

Th(texts) == [tag |-> "th", texts |-> texts]

Tr(cells) == [tag |-> "tr", cells |-> cells, rows |-> <<>>]

Section(tag, rows) == [tag |-> tag, cells |-> <<>>, rows |-> rows]

\* tr[position()>1] under one parent: all but the first tr child.
AfterFirst(rows) == IF rows = <<>> THEN <<>> ELSE Tail(rows)

\* //table//tr[position()>1] within one table, in document order: position()
\* counts among the tr children of the same parent.
RECURSIVE TableRows(_, _, _)
TableRows(children, i, seen) ==
    IF i > Len(children) THEN <<>>
    ELSE IF children[i].tag = "tr"
         THEN (IF seen >= 1 THEN <<children[i].cells>> ELSE <<>>)
              \o TableRows(children, i + 1, seen + 1)
         ELSE AfterFirst(children[i].rows) \o TableRows(children, i + 1, seen)

RECURSIVE XPathRows(_, _)
XPathRows(tables, i) ==
    IF i > Len(tables) THEN <<>>
    ELSE TableRows(tables[i], 1, 0) \o XPathRows(tables, i + 1)

\* row.xpath("./td/text()"): the text nodes of the td children, in order.
RECURSIVE XPathCells(_, _)
XPathCells(row, j) ==
    IF j > Len(row) THEN <<>>
    ELSE (IF row[j].tag = "td" THEN row[j].texts ELSE <<>>) \o XPathCells(row, j + 1)

parse_html_file(doc) ==
    LET rows == XPathRows(doc.tables, 1)
        cells == [i \in 1..Len(rows) |-> XPathCells(rows[i], 1)]
    IN  SelectSeq(cells, LAMBDA c : Len(c) = 4)

html_convert_to_table(rows) ==
    TableOf(<< Column(Word("_ID"), [i \in 1..Len(rows) |-> rows[i][1]]),
               Column(Word("NAME"), [i \in 1..Len(rows) |-> rows[i][2]]),
               Column(Word("SHORT_NAME"), [i \in 1..Len(rows) |-> rows[i][3]]),
               Column(Word("TYPE"), [i \in 1..Len(rows) |-> rows[i][4]]) >>)

read_html_file(doc) ==
    IF doc.kind = "empty" THEN TableRaised("XMLSyntaxError")
    ELSE html_convert_to_table(parse_html_file(doc))

(***************************************************************************)
(* The inputs of the flattener.                                            *)
(***************************************************************************)
MaxEntries == 2

kId == Word("id")
kLOG == Word("LOG")
kGEO == Word("GEO")
kA == Word("a")
kB == Word("b")
kC == Word("c")
kAB == <<C("a"), C("_"), C("b")>>

\* Sequences without repeated keys of at most n items drawn from the set E.
RECURSIVE ItemSeqs(_, _)
ItemSeqs(E, n) ==
    IF n = 0 THEN {<<>>}
    ELSE LET S == ItemSeqs(E, n - 1) IN
         S \cup {Append(s, e) : s \in {x \in S : Len(x) = n - 1},
                                 e \in E}

UniqueKeys(d) == \A i, j \in 1..Len(d) : d[i].k = d[j].k => i = j

NestedValues ==
    { VNum("1"),
      VObj(<<Item(kB, VNum("2"))>>),
      VObj(<<Item(kB, VObj(<<Item(kC, VNum("3"))>>))>>) }

NestedItems == {Item(k, v) : k \in {kA, kAB, kLOG}, v \in NestedValues}

NestedObjects == {VObj(d) : d \in {x \in ItemSeqs(NestedItems, MaxEntries) : UniqueKeys(x)}}

\* Strings that json.loads rejects, or decodes to something that is no dict.
NotObjectTexts ==
    { Word("not-json"), <<>>, <<C("{"), Lit(kA), C(":")>>,
      Dumps(VNum("5")), Dumps(VStr(Word("x"))), Dumps(VArr(<<VNum("1")>>)),
      Dumps(VBool("true")), Dumps(VNull) }

LogValues ==
    {VStr(Dumps(d)) : d \in NestedObjects}
    \cup {VStr(t) : t \in NotObjectTexts}
    \cup {VNum("7"), VNull, VObj(<<Item(kA, VNum("1"))>>), VArr(<<VNum("1")>>)}

GeoValues ==
    { VStr(Dumps(VObj(<<Item(kA, VNum("8"))>>))),
      VStr(Dumps(VObj(<<Item(kLOG, VNum("9"))>>))),
      VStr(Dumps(VObj(<<Item(kA, VObj(<<Item(kB, VNum("6"))>>))>>))),
      VStr(Dumps(VObj(<<Item(kA, VArr(<<VNum("1")>>))>>))),
      VStr(Word("not-json")),
      VStr(Dumps(VNum("5"))),
      VNull }

Opt(k, values) == {<<>>} \cup {<<Item(k, v)>> : v \in values}

\* {"id":1,"LOG":"{\"level\":\"info\",\"ctx\":{\"ip\":\"1.2.3.4\"}}"}
ExampleNested ==
    <<Item(kId, VNum("1")),
      Item(kLOG, VStr(Dumps(VObj(<<Item(Word("level"), VStr(Word("info"))),
                                   Item(Word("ctx"), VObj(<<Item(Word("ip"), VStr(Word("1.2.3.4")))>>))>>))))>>

\* {"id":1,"LOG":"not-json"}
ExamplePassThrough == <<Item(kId, VNum("1")), Item(kLOG, VStr(Word("not-json")))>>

Records ==
    {a \o b \o c \o d : a \in Opt(kId, {VNum("1")}), b \in Opt(kAB, {VNum("0")}),
                        c \in Opt(kLOG, LogValues), d \in Opt(kGEO, GeoValues)}
    \cup {ExampleNested, ExamplePassThrough}

\* read_jsonl_file passes ["LOG", "GEO"]; the function takes any list.
FieldLists == {<<kLOG, kGEO>>, <<kGEO, kLOG>>, <<kLOG>>}

IdleFlatten == record = <<>> /\ nested_fields = <<>> /\ flat = Pending

IdleTable == data = <<>> /\ table = NoTable

IdleHtml == html_file = NoDoc /\ html_table = NoTable

IdleSys == proc = <<>> /\ jobs = <<>> /\ dest = <<>> /\ ncalls = 0

InitFlatten ==
    /\ record \in Records
    /\ nested_fields \in FieldLists
    /\ flat = Pending
    /\ IdleTable /\ IdleHtml /\ IdleSys

ParseNestedJsonFields ==
    /\ flat = Pending
    /\ flat' = parse_nested_json_fields(record, nested_fields)
    /\ UNCHANGED <<record, nested_fields, tableVars, htmlVars, sysVars>>

NextFlatten == ParseNestedJsonFields

SpecFlatten == InitFlatten /\ [][NextFlatten]_vars

(***************************************************************************)
(* Claims about parse_nested_json_fields.                                  *)
(***************************************************************************)
DecodesToObject(v) == v.t = "str" /\ JsonLoads(v.s).ok /\ JsonLoads(v.s).v.t = "obj"

Decoded(v) == JsonLoads(v.s).v.m

Fields == {nested_fields[i] : i \in 1..Len(nested_fields)}

\* C3: a designated field that is present and holds a non-string, or a string
\* that does not decode to a JSON object, makes the call raise nothing, and the
\* returned record still holds the field with its original value.
C3_PassThrough ==
    flat # Pending =>
        \A f \in Fields :
            (Has(record, f) /\ ~DecodesToObject(Get(record, f))) =>
                /\ flat.exc = "none"
                /\ Has(flat.result, f)
                /\ Get(flat.result, f) = Get(record, f)

\* The keys a decoded object emits, per the flattening rule.
C4_EmittedKeys(items) ==
    UNION { IF items[j].v.t = "obj"
            THEN {items[j].k \o <<C("_")>> \o items[j].v.m[n].k : n \in 1..Len(items[j].v.m)}
            ELSE {items[j].k} : j \in 1..Len(items) }

C4_AllEmitted ==
    UNION {C4_EmittedKeys(Decoded(Get(record, f))) :
           f \in {g \in Fields : Has(record, g) /\ DecodesToObject(Get(record, g))}}

\* C4 as stated: whenever a designated field decodes to an object D, the
\* returned record holds every non-object entry of D under its own key, every
\* sub-entry of an object-valued entry under 'k_subk', not the designated key,
\* and unchanged every other input key that no emitted key collides with.
C4_FlattenAll ==
    flat.exc = "none" =>
        \A f \in Fields :
            (Has(record, f) /\ DecodesToObject(Get(record, f))) =>
                LET D == Decoded(Get(record, f)) IN
                /\ \A j \in 1..Len(D) :
                      IF D[j].v.t = "obj"
                      THEN \A n \in 1..Len(D[j].v.m) :
                              LET key == D[j].k \o <<C("_")>> \o D[j].v.m[n].k IN
                              Has(flat.result, key) /\ Get(flat.result, key) = D[j].v.m[n].v
                      ELSE Has(flat.result, D[j].k) /\ Get(flat.result, D[j].k) = D[j].v
                /\ ~Has(flat.result, f)
                /\ \A k \in Keys(record) \ (Fields \cup C4_AllEmitted) :
                      Has(flat.result, k) /\ Get(flat.result, k) = Get(record, k)

\* The writes and deletions the flattening rule prescribes, in order: for each
\* designated field that decodes to an object, its emissions, then the removal
\* of the field's key.
C4_Set(k, v) == [op |-> "set", k |-> k, v |-> v]

C4_Del(k) == [op |-> "del", k |-> k, v |-> VNull]

RECURSIVE C4_ItemWrites(_, _)
C4_ItemWrites(items, j) ==
    IF j > Len(items) THEN <<>>
    ELSE (IF items[j].v.t = "obj"
          THEN [n \in 1..Len(items[j].v.m) |->
                   C4_Set(items[j].k \o <<C("_")>> \o items[j].v.m[n].k, items[j].v.m[n].v)]
          ELSE <<C4_Set(items[j].k, items[j].v)>>)
         \o C4_ItemWrites(items, j + 1)

RECURSIVE C4_Log(_)
C4_Log(i) ==
    IF i > Len(nested_fields) THEN <<>>
    ELSE LET f == nested_fields[i] IN
         (IF Has(record, f) /\ DecodesToObject(Get(record, f))
          THEN C4_ItemWrites(Decoded(Get(record, f)), 1) \o <<C4_Del(f)>>
          ELSE <<>>)
         \o C4_Log(i + 1)

C4_Last(log, k) ==
    LET I == {i \in 1..Len(log) : log[i].k = k} IN
    IF I = {} THEN 0 ELSE CHOOSE i \in I : \A j \in I : j <= i

C4_Raises ==
    \E f \in Fields :
        /\ Has(record, f) /\ Get(record, f).t = "str"
        /\ JsonLoads(Get(record, f).s).ok /\ JsonLoads(Get(record, f).s).v.t # "obj"

\* C4 amended: the call raises AttributeError when some designated field holds
\* JSON text of a non-object; otherwise it returns the record in which every
\* key is in the state its last write or deletion left it (last write wins,
\* the designated key is deleted after its own emissions), and a key that was
\* never written or deleted is as in the input.
C4_LastWriteWins ==
    flat # Pending =>
        IF C4_Raises THEN flat.exc = "AttributeError"
        ELSE /\ flat.exc = "none"
             /\ LET log == C4_Log(1) IN
                \A k \in Keys(record) \cup Keys(flat.result) \cup {log[i].k : i \in 1..Len(log)} :
                    LET n == C4_Last(log, k) IN
                    IF n = 0
                    THEN /\ Has(flat.result, k) <=> Has(record, k)
                         /\ Has(record, k) => Get(flat.result, k) = Get(record, k)
                    ELSE IF log[n].op = "del" THEN ~Has(flat.result, k)
                    ELSE Has(flat.result, k) /\ Get(flat.result, k) = log[n].v

\* {"id":1,"LOG":"{\"a_b\":1,\"a\":{\"b\":2}}"} flattens to {id:1, a_b:2}: the entry
\* a_b = 1 is overwritten by the sub-entry of a, and LOG is removed.
C4_Witness ==
    /\ record = <<Item(kId, VNum("1")),
                  Item(kLOG, VStr(Dumps(VObj(<<Item(kAB, VNum("1")),
                                               Item(kA, VObj(<<Item(kB, VNum("2"))>>))>>))))>>
    /\ nested_fields = <<kLOG, kGEO>>
    /\ flat = Returned(<<Item(kId, VNum("1")), Item(kAB, VNum("2"))>>)

\* The last value the flattening rule writes to a key, taking the designated
\* fields in the order of nested_fields.
C14_Writes(log, k) == {i \in 1..Len(log) : log[i].op = "set" /\ log[i].k = k}

C14_LastWritten(log, k) ==
    log[CHOOSE i \in C14_Writes(log, k) : \A j \in C14_Writes(log, k) : j <= i].v

\* C14: the designated fields are taken in the order of nested_fields, a key
\* that is emitted when the result already holds it raises nothing, and every
\* key of the returned record that was emitted holds the value emitted for it
\* last (a key that was never emitted holds its input value).
C14_LastEmittedValue ==
    (flat # Pending /\ ~C4_Raises) =>
        /\ flat.exc = "none"
        /\ LET log == C4_Log(1) IN
           \A k \in Keys(flat.result) :
               IF C14_Writes(log, k) # {}
               THEN Get(flat.result, k) = C14_LastWritten(log, k)
               ELSE Has(record, k) /\ Get(flat.result, k) = Get(record, k)

\* {"LOG":"{\"a\":1}","GEO":"{\"a\":8}"} with the fields given as GEO, LOG: both
\* emit a, and the value of LOG, taken last, remains.
C14_Witness ==
    /\ record = <<Item(kLOG, VStr(Dumps(VObj(<<Item(kA, VNum("1"))>>)))),
                  Item(kGEO, VStr(Dumps(VObj(<<Item(kA, VNum("8"))>>))))>>
    /\ nested_fields = <<kGEO, kLOG>>
    /\ flat = Returned(<<Item(kA, VNum("1"))>>)

C12_Scalar(v) == v.t \in {"null", "bool", "num", "str"}

\* C12: every value of a returned record is a scalar.
C12_ScalarsOnly ==
    (flat # Pending /\ flat.exc = "none") =>
        \A i \in 1..Len(flat.result) : C12_Scalar(flat.result[i].v)

\* The designated fields of the record whose string decodes to an object.
C12_DecodedFields == {f \in Fields : Has(record, f) /\ DecodesToObject(Get(record, f))}

\* The values one level below a designated field that are not objects, and
\* the values two levels below it.
C12_Level1(D) == {D[j].v : j \in {n \in 1..Len(D) : D[n].v.t # "obj"}}

C12_Level2(D) ==
    UNION {{D[j].v.m[n].v : n \in 1..Len(D[j].v.m)} : j \in {n \in 1..Len(D) : D[n].v.t = "obj"}}

\* C12 amended: flattening goes one level deep.  A value of a returned record
\* that is not a scalar is the input record's own value of that key, or an
\* array found one level below a designated field, or an object or array
\* found two levels below it and written as it is.
C12_OneLevelOnly ==
    (flat # Pending /\ flat.exc = "none") =>
        \A i \in 1..Len(flat.result) :
            LET k == flat.result[i].k
                v == flat.result[i].v
            IN  ~C12_Scalar(v) =>
                    \/ Has(record, k) /\ Get(record, k) = v
                    \/ \E f \in C12_DecodedFields :
                          \/ v \in C12_Level2(Decoded(Get(record, f)))
                          \/ v.t = "arr" /\ v \in C12_Level1(Decoded(Get(record, f)))

\* {"LOG":"{\"a\":{\"b\":{\"c\":3}}}"} flattens to {a_b: {c: 3}}.
C12_Witness ==
    /\ record = <<Item(kLOG, VStr(Dumps(VObj(<<Item(kA,
                      VObj(<<Item(kB, VObj(<<Item(kC, VNum("3"))>>))>>))>>))))>>
    /\ nested_fields = <<kLOG>>
    /\ flat = Returned(<<Item(kAB, VObj(<<Item(kC, VNum("3"))>>))>>)

\* C16: when the call returns, no designated field that was decoded is a key
\* of the result.
C16_DesignatedKeyRemoved ==
    (flat # Pending /\ flat.exc = "none") =>
        \A f \in C12_DecodedFields : ~Has(flat.result, f)

\* The designated fields that come after position i and were decoded.
C16_LaterDecoded(i) ==
    {nested_fields[j] : j \in {n \in (i + 1)..Len(nested_fields) :
                                  nested_fields[n] \in C12_DecodedFields}}

\* C16 amended: the key of a decoded designated field is deleted after the
\* emissions of that field, the value the field itself emitted under that key
\* included; it is a key of the result only when a designated field taken
\* later emits it again.
C16_RemovedUnlessEmittedLater ==
    (flat # Pending /\ flat.exc = "none") =>
        \A i \in 1..Len(nested_fields) :
            nested_fields[i] \in C12_DecodedFields =>
                (Has(flat.result, nested_fields[i]) <=>
                    \E g \in C16_LaterDecoded(i) :
                        nested_fields[i] \in C4_EmittedKeys(Decoded(Get(record, g))))

\* {"id":1,"LOG":"{\"LOG\":1}"} flattens to {id:1}: the emitted LOG = 1 is
\* deleted with the designated key.
C16_Witness ==
    /\ record = <<Item(kId, VNum("1")),
                  Item(kLOG, VStr(Dumps(VObj(<<Item(kLOG, VNum("1"))>>))))>>
    /\ nested_fields = <<kLOG>>
    /\ flat = Returned(<<Item(kId, VNum("1"))>>)

(***************************************************************************)
(* The inputs of the column-union builder: flattened records.              *)
(***************************************************************************)
MaxRecords == 3

FlatValues == {VNum("1"), VNum("2")}

FlatRecords ==
    {a \o b : a \in Opt(kA, FlatValues), b \in Opt(kB, FlatValues)}
    \cup {b \o a : a \in Opt(kA, FlatValues), b \in Opt(kB, FlatValues)}

RECURSIVE SeqsUpTo(_, _)
SeqsUpTo(E, n) ==
    IF n = 0 THEN {<<>>}
    ELSE LET S == SeqsUpTo(E, n - 1) IN
         S \cup {Append(s, e) : s \in {x \in S : Len(x) = n - 1}, e \in E}

\* {a:1}, {b:2}, {a:3,b:4}
ExampleData ==
    << <<Item(kA, VNum("1"))>>, <<Item(kB, VNum("2"))>>,
       <<Item(kA, VNum("3")), Item(kB, VNum("4"))>> >>

InitTable ==
    /\ data \in SeqsUpTo(FlatRecords, MaxRecords) \cup {ExampleData}
    /\ table = NoTable
    /\ IdleFlatten /\ IdleHtml /\ IdleSys

ConvertToTable ==
    /\ table = NoTable
    /\ \E order \in Orders(KeyUnion(data)) : table' = jsonl_convert_to_table(data, order)
    /\ UNCHANGED <<data, flattenVars, htmlVars, sysVars>>

NextTable == ConvertToTable

SpecTable == InitTable /\ [][NextTable]_vars

ColumnNames(t) == {t.cols[c].name : c \in 1..Len(t.cols)}

MaxCells == 5

MaxRows == 3

MaxSectionRows == 2

\* The text of cell j of the row labelled lbl.
CellTextOf(lbl, j) == <<C(lbl)>> \o [n \in 1..j |-> C("i")]

PlainRow(lbl, n) == [j \in 1..n |-> Td(<<CellTextOf(lbl, j)>>)]

\* <tr><td>e</td><td>e</td><td></td><td>e</td></tr>: four cells, one empty.
BlankCellRow ==
    <<Td(<<CellTextOf("e", 1)>>), Td(<<CellTextOf("e", 2)>>), Td(<<>>), Td(<<CellTextOf("e", 4)>>)>>

\* <tr><td>s</td><td>s<br>s</td><td>s</td></tr>: three cells, four text nodes.
SplitCellRow ==
    <<Td(<<CellTextOf("s", 1)>>), Td(<<CellTextOf("s", 2), CellTextOf("s", 3)>>),
      Td(<<CellTextOf("s", 4)>>)>>

\* A th cell followed by four td cells.
ThRow == <<Th(<<CellTextOf("h", 1)>>)>> \o PlainRow("t", 4)

HeaderRow == [j \in 1..4 |-> Th(<<CellTextOf("h", j)>>)]

RowPool ==
    {PlainRow(l, n) : l \in {"r", "q"}, n \in 0..MaxCells}
    \cup {BlankCellRow, SplitCellRow, ThRow, HeaderRow}

SmallRowPool == {PlainRow("r", 4), PlainRow("q", 4), HeaderRow}

TrTable(rows) == [i \in 1..Len(rows) |-> Tr(rows[i])]

\* A header row and rows of 4, 3, 4 and 5 cells.
ExampleTable ==
    TrTable(<<HeaderRow, PlainRow("r", 4), PlainRow("r", 3), PlainRow("q", 4), PlainRow("q", 5)>>)

Docs ==
    {EmptyFile, Doc(<<>>), Doc(<<ExampleTable>>)}
    \cup {Doc(<<TrTable(rows)>>) : rows \in SeqsUpTo(RowPool, MaxRows)}
    \cup {Doc(<<TrTable(a), TrTable(b)>>) : a, b \in SeqsUpTo(SmallRowPool, MaxSectionRows)}
    \cup {Doc(<< <<Section("thead", h), Section("tbody", b)>> >>) :
              h \in SeqsUpTo(SmallRowPool, 1), b \in SeqsUpTo(SmallRowPool, MaxSectionRows)}

InitHtml ==
    /\ html_file \in Docs
    /\ html_table = NoTable
    /\ IdleFlatten /\ IdleTable /\ IdleSys

ReadHtmlFile ==
    /\ html_table = NoTable
    /\ html_table' = read_html_file(html_file)
    /\ UNCHANGED <<html_file, flattenVars, tableVars, sysVars>>

NextHtml == ReadHtmlFile

SpecHtml == InitHtml /\ [][NextHtml]_vars

\* A document of one table whose rows are all direct children of the table.
C6_PlainTable(doc) ==
    /\ doc.kind = "html" /\ Len(doc.tables) = 1
    /\ \A i \in 1..Len(doc.tables[1]) : doc.tables[1][i].tag = "tr"

\* The text content of a cell.
RECURSIVE C6_Text(_, _)
C6_Text(texts, i) == IF i > Len(texts) THEN <<>> ELSE texts[i] \o C6_Text(texts, i + 1)

\* The records the claim expects: of the rows after the header, those with
\* exactly four td cells, each as the text content of its four cells.
C6_Expected(children) ==
    LET rest == [i \in 1..(Len(children) - 1) |->
                    SelectSeq(children[i + 1].cells, LAMBDA c : c.tag = "td")]
        kept == SelectSeq(rest, LAMBDA r : Len(r) = 4)
    IN  [i \in 1..Len(kept) |-> [j \in 1..4 |-> C6_Text(kept[i][j].texts, 1)]]

\* C6: read_html_file outputs one record for exactly the non-header rows with
\* four cells, in document order, cell j of the row in column j of _ID, NAME,
\* SHORT_NAME, TYPE; whether a row is kept depends only on its number of cells.
C6_FourCellRows ==
    (html_table # NoTable /\ C6_PlainTable(html_file)) =>
        LET want == C6_Expected(html_file.tables[1]) IN
        /\ html_table.exc = "none"
        /\ [c \in 1..4 |-> html_table.cols[c].name] =
               <<Word("_ID"), Word("NAME"), Word("SHORT_NAME"), Word("TYPE")>>
        /\ \A c \in 1..4 : html_table.cols[c].values = [i \in 1..Len(want) |-> want[i][c]]

(***************************************************************************)
(* read_jsonl_file: load_jsonl_file, normalize_data, convert_to_table.     *)
(***************************************************************************)
load_jsonl_file(content) == JsonLoads(content)

\* What "for record in data" iterates over: the elements of a list, the keys
\* of a dict, the characters of a str; other values are not iterable.
Iterable(v) == v.t \in {"arr", "obj", "str"}

Elements(v) ==
    CASE v.t = "arr" -> [i \in 1..Len(v.m) |-> v.m[i].v]
      [] v.t = "obj" -> [i \in 1..Len(v.m) |-> VStr(v.m[i].k)]
      [] v.t = "str" -> [i \in 1..Len(v.s) |-> VStr(<<v.s[i]>>)]

\* The list comprehension of normalize_data.  record.copy() raises
\* AttributeError on an element that is no dict (list elements, which have a
\* copy method of their own, are outside the inputs).
RECURSIVE NormalizeFrom(_, _, _, _)
NextRecord(elems, fields, i, acc, o) ==
    IF o.exc # "none" THEN o
    ELSE NormalizeFrom(elems, fields, i + 1, Append(acc, o.result))

NormalizeFrom(elems, fields, i, acc) ==
    IF i > Len(elems) THEN Returned(acc)
    ELSE IF elems[i].t # "obj" THEN Raised("AttributeError")
    ELSE NextRecord(elems, fields, i, acc, parse_nested_json_fields(elems[i].m, fields))

normalize_data(raw, fields) ==
    IF ~Iterable(raw) THEN Raised("TypeError")
    ELSE NormalizeFrom(Elements(raw), fields, 1, <<>>)

Normalized(raw_data) ==
    IF ~raw_data.ok THEN Raised("JSONDecodeError")
    ELSE normalize_data(raw_data.v, <<kLOG, kGEO>>)

\* The flattened records of a file, or the exception raised on the way.
FlatData(content) == Normalized(load_jsonl_file(content))

\* The table of the flattened records, its columns in one of the orders the
\* set of keys may iterate in.
TablesOf(flat_data) ==
    IF flat_data.exc # "none" THEN {TableRaised(flat_data.exc)}
    ELSE {jsonl_convert_to_table(flat_data.result, order) :
             order \in Orders(KeyUnion(flat_data.result))}

\* The tables read_jsonl_file may return for a file.
read_jsonl_file(content) == TablesOf(FlatData(content))

(***************************************************************************)
(* BigQuery as the loader uses it.  The rows of a destination table are    *)
(* kept as the batches that loaded them.  A load job is PENDING, then      *)
(* RUNNING, then DONE; a job that succeeds applies its write disposition   *)
(* to the destination in one step when it completes, and a job that fails  *)
(* leaves the destination as it was.                                       *)
(***************************************************************************)
TableIds == {"prod_contents", "brands_talent_franchise", "sample_data"}

Batch(id, rows) == [load |-> id, rows |-> rows]

RECURSIVE RowCount(_)
RowCount(content) ==
    IF content = <<>> THEN 0 ELSE Head(content).rows + RowCount(Tail(content))

NoJob == [state |-> "none", error |-> FALSE, disposition |-> "none",
          table_id |-> "none", batch |-> Batch(0, 0)]

LoadJob(disposition, table_id, batch) ==
    [state |-> "PENDING", error |-> FALSE, disposition |-> disposition,
     table_id |-> table_id, batch |-> batch]

\* What a completing job makes of the destination's content.
Commit(content, disposition, batch) ==
    CASE disposition = "WRITE_TRUNCATE" -> [ok |-> TRUE, content |-> <<batch>>]
      [] disposition = "WRITE_APPEND" -> [ok |-> TRUE, content |-> Append(content, batch)]
      [] disposition = "WRITE_EMPTY" ->
            IF content = <<>> THEN [ok |-> TRUE, content |-> <<batch>>]
            ELSE [ok |-> FALSE, content |-> content]

\* A faulty variant of JobIsTerminal, against which the properties are validated: no wait for the job.
JobIsTerminal_NoWait(job) == job.state # "none"

\* job.result() returns or raises once the job is DONE.
JobIsTerminal(job) == job.state = "DONE"

(***************************************************************************)
(* upload_data_to_bigquery.                                                *)
(***************************************************************************)
\* A faulty variant of WriteDispositionMap, against which the properties are validated: "replace" mapped to WRITE_APPEND.
WriteDispositionMap_Append == [replace |-> "WRITE_APPEND"]

\* The dict literal that if_exists indexes: "append" and "fail" are commented
\* out in the source.
WriteDispositionMap == [replace |-> "WRITE_TRUNCATE"]

NoBlob == [kind |-> "none", doc |-> NoDoc, text |-> <<>>, rows |-> 0]

\* A caller with no invocation in progress.  pre and post record the
\* destination's content when upload_data_to_bigquery was entered and when
\* its job completed; invoked, loaded and failed record the tasks of a run.
IdleProc ==
    [entry |-> "none", at |-> "idle", id |-> 0, stmt |-> 0, task |-> "none",
     blob |-> NoBlob, read |-> "pending", upload |-> "none", if_exists |-> "none",
     rows |-> 0, table_id |-> "none", buffer |-> FALSE, exc |-> "none",
     pre |-> <<>>, post |-> <<>>, invoked |-> {}, loaded |-> {}, failed |-> {},
     dbt |-> FALSE]

\* A faulty variant of TaskRaised, against which the properties are validated: main catches the exception of a task and goes on
\* with its next statement.
TaskRaised_Caught(pr, e) ==
    IF pr.entry = "main" /\ pr.task # "none"
    THEN [pr EXCEPT !.failed = @ \cup {pr.task}, !.stmt = @ + 1, !.at = "running"]
    ELSE [pr EXCEPT !.at = "raised", !.exc = e,
                    !.failed = IF pr.task = "none" THEN @ ELSE @ \cup {pr.task}]

\* An exception leaves the task, and main, which catches nothing.
TaskRaised(pr, e) ==
    [pr EXCEPT !.at = "raised", !.exc = e,
               !.failed = IF pr.task = "none" THEN @ ELSE @ \cup {pr.task}]

\* A faulty variant of UploadCall, against which the properties are
\* validated: an if_exists that is no key of the dict falls back to
\* WRITE_APPEND, and the table is serialized and the job submitted.
UploadCall_Default(pr, rows, table_id, if_exists, content) ==
    [proc |-> [pr EXCEPT !.upload = "called", !.if_exists = if_exists, !.rows = rows,
                         !.table_id = table_id, !.pre = content, !.post = <<>>,
                         !.buffer = TRUE, !.at = "waiting"],
     job |-> LoadJob(IF if_exists \in DOMAIN WriteDispositionMap
                     THEN WriteDispositionMap[if_exists] ELSE "WRITE_APPEND",
                     table_id, Batch(pr.id, rows))]

\* The call up to the submission of the load job: the outcome is the caller's
\* new state and its job.
UploadCall(pr, rows, table_id, if_exists, content) ==
    LET called == [pr EXCEPT !.upload = "called", !.if_exists = if_exists, !.rows = rows,
                             !.table_id = table_id, !.pre = content, !.post = <<>>,
                             !.buffer = FALSE]
    IN  IF if_exists \notin DOMAIN WriteDispositionMap
        THEN [proc |-> TaskRaised([called EXCEPT !.upload = "raised"], "KeyError"),
              job |-> NoJob]
        ELSE [proc |-> [called EXCEPT !.buffer = TRUE, !.at = "waiting"],
              job |-> LoadJob(WriteDispositionMap[if_exists], table_id, Batch(pr.id, rows))]

(***************************************************************************)
(* The Prefect flow: three tasks and main.                                 *)
(***************************************************************************)
Tasks == {"csv", "html", "jsonl"}

\* main's statements, in order; the fourth is trigger_dbt_flow().
TaskAt == <<"csv", "html", "jsonl">>

TableOfTask == [csv |-> "prod_contents", html |-> "brands_talent_franchise",
                jsonl |-> "sample_data"]

\* What read_gcs_file finds in the bucket: nothing (it raises), or a file.
MissingBlob == [kind |-> "missing", doc |-> NoDoc, text |-> <<>>, rows |-> 0]

CsvBlob(rows) == [kind |-> "csv", doc |-> NoDoc, text |-> <<>>, rows |-> rows]

BadCsvBlob == [kind |-> "badcsv", doc |-> NoDoc, text |-> <<>>, rows |-> 0]

HtmlBlob(doc) == [kind |-> "html", doc |-> doc, text |-> <<>>, rows |-> 0]

JsonlBlob(text) == [kind |-> "jsonl", doc |-> NoDoc, text |-> text, rows |-> 0]

JsonlTexts ==
    { Word("not-json"),
      Dumps(VArr(<<>>)),
      Dumps(VArr(<<VObj(ExampleNested), VObj(ExamplePassThrough)>>)),
      Dumps(VArr(<<VObj(<<Item(kId, VNum("1")), Item(kLOG, VStr(Dumps(VNum("5"))))>>)>>)),
      Dumps(VObj(<<Item(kA, VNum("1"))>>)) }

Blobs(task) ==
    CASE task = "csv" -> {MissingBlob, BadCsvBlob, CsvBlob(5)}
      [] task = "html" ->
            {MissingBlob} \cup {HtmlBlob(d) : d \in {EmptyFile, Doc(<<>>), Doc(<<ExampleTable>>)}}
      [] task = "jsonl" -> {MissingBlob} \cup {JsonlBlob(t) : t \in JsonlTexts}

\* pyarrow.csv.read_csv: a table of the file's rows, or ArrowInvalid.
read_csv(blob) ==
    IF blob.kind = "csv"
    THEN TableOf(<<Column(Word("col"), [i \in 1..blob.rows |-> VNull])>>)
    ELSE TableRaised("ArrowInvalid")

\* The outcomes the task's reader may have on a file that was found.
Reader(task, blob) ==
    CASE task = "csv" -> {read_csv(blob)}
      [] task = "html" -> {read_html_file(blob.doc)}
      [] task = "jsonl" -> read_jsonl_file(blob.text)

\* The rest of a task once its reader has returned t or raised.
AfterRead(started, task, t, content) ==
    IF t.exc # "none"
    THEN [proc |-> TaskRaised([started EXCEPT !.read = t.exc], t.exc), job |-> NoJob]
    ELSE UploadCall([started EXCEPT !.read = "none"], NumRows(t),
                    TableOfTask[task], "append", content)

Started(pr, task, blob) ==
    [pr EXCEPT !.task = task, !.blob = blob, !.read = "pending",
               !.upload = "none", !.invoked = @ \cup {task}]

\* The body of a task: read_gcs_file, the reader, upload_data_to_bigquery
\* with the default if_exists.  The outcomes it may have.
TaskCall(pr, task, blob, content) ==
    IF blob.kind = "missing"
    THEN {[proc |-> TaskRaised(Started(pr, task, blob), "NotFound"), job |-> NoJob]}
    ELSE {AfterRead(Started(pr, task, blob), task, t, content) : t \in Reader(task, blob)}

\* upload_data_to_bigquery has returned to a task, and the task to its caller.
TaskReturned(pr) ==
    LET done == [pr EXCEPT !.upload = "returned",
                           !.loaded = IF pr.task = "none" THEN @ ELSE @ \cup {pr.task}]
    IN  IF pr.entry = "main"
        THEN [done EXCEPT !.at = "running", !.stmt = @ + 1]
        ELSE [done EXCEPT !.at = "returned"]

(***************************************************************************)
(* The system: callers that invoke main, a task or the loader, and the     *)
(* load jobs that BigQuery runs for them.                                  *)
(***************************************************************************)
NumProcs == 2

MaxCalls == 2

Procs == 1..NumProcs

IfExistsValues == {"append", "replace", "fail"}

RowCounts == {3, 5}

\* The destinations of the calls made on the loader directly.
DirectTables == {"sample_data"}

Init ==
    /\ proc = [p \in Procs |-> IdleProc]
    /\ jobs = [p \in Procs |-> NoJob]
    /\ dest = [t \in TableIds |-> <<>>]
    /\ ncalls = 0
    /\ IdleFlatten /\ IdleTable /\ IdleHtml

\* A faulty variant of Free, against which the properties are validated: a
\* caller waits until no load job of another call is pending or running, as
\* it would under a lock held for the length of a call.
Free_Locked(p) ==
    /\ proc[p].at \in {"idle", "returned", "raised"} /\ ncalls < MaxCalls
    /\ \A q \in Procs : jobs[q].state \notin {"PENDING", "RUNNING"}

\* A caller can start an invocation whenever it has none in progress: neither
\* the loader nor the flow takes a lock or waits for another caller.
Free(p) == proc[p].at \in {"idle", "returned", "raised"} /\ ncalls < MaxCalls

NewProc(entry) == [IdleProc EXCEPT !.entry = entry, !.id = ncalls + 1]

Run(p, r) ==
    /\ proc' = [proc EXCEPT ![p] = r.proc]
    /\ jobs' = [jobs EXCEPT ![p] = r.job]

\* A run of one task on its own.
RunTask(p, task) ==
    /\ Free(p)
    /\ \E blob \in Blobs(task) :
          \E r \in TaskCall(NewProc(task), task, blob, dest[TableOfTask[task]]) : Run(p, r)
    /\ ncalls' = ncalls + 1
    /\ UNCHANGED <<dest, flattenVars, tableVars, htmlVars>>

process_and_upload_csv(p) == RunTask(p, "csv")

process_and_upload_html(p) == RunTask(p, "html")

process_and_upload_jsonl(p) == RunTask(p, "jsonl")

\* main: entered by a free caller, or resumed after a task has returned; it
\* runs its next statement.
main(p) ==
    /\ Free(p) \/ (proc[p].entry = "main" /\ proc[p].at = "running")
    /\ LET pr == IF proc[p].entry = "main" /\ proc[p].at = "running"
                 THEN proc[p]
                 ELSE [NewProc("main") EXCEPT !.stmt = 1, !.at = "running"]
       IN  /\ IF pr.stmt <= Len(TaskAt)
              THEN \E blob \in Blobs(TaskAt[pr.stmt]) :
                   \E r \in TaskCall(pr, TaskAt[pr.stmt], blob,
                                      dest[TableOfTask[TaskAt[pr.stmt]]]) : Run(p, r)
              ELSE \E ok \in BOOLEAN :
                      Run(p, [proc |-> [pr EXCEPT !.dbt = TRUE, !.task = "none",
                                                  !.at = IF ok THEN "returned" ELSE "raised",
                                                  !.exc = IF ok THEN "none" ELSE "DbtError"],
                              job |-> jobs[p]])
           /\ ncalls' = IF pr = proc[p] THEN ncalls ELSE ncalls + 1
    /\ UNCHANGED <<dest, flattenVars, tableVars, htmlVars>>

\* A call of the loader on its own, with any if_exists.
upload_data_to_bigquery(p) ==
    /\ Free(p)
    /\ \E if_exists \in IfExistsValues, rows \in RowCounts, t \in DirectTables :
          Run(p, UploadCall(NewProc("upload_data_to_bigquery"), rows, t, if_exists, dest[t]))
    /\ ncalls' = ncalls + 1
    /\ UNCHANGED <<dest, flattenVars, tableVars, htmlVars>>

JobStart(p) ==
    /\ jobs[p].state = "PENDING"
    /\ jobs' = [jobs EXCEPT ![p].state = "RUNNING"]
    /\ UNCHANGED <<proc, dest, ncalls, flattenVars, tableVars, htmlVars>>

JobFinish(p) ==
    /\ jobs[p].state = "RUNNING"
    /\ \E ok \in BOOLEAN :
          LET c == Commit(dest[jobs[p].table_id], jobs[p].disposition, jobs[p].batch) IN
          IF ok /\ c.ok
          THEN /\ dest' = [dest EXCEPT ![jobs[p].table_id] = c.content]
               /\ jobs' = [jobs EXCEPT ![p].state = "DONE"]
               /\ proc' = [proc EXCEPT ![p].post = c.content]
          ELSE /\ jobs' = [jobs EXCEPT ![p].state = "DONE", ![p].error = TRUE]
               /\ UNCHANGED <<proc, dest>>
    /\ UNCHANGED <<ncalls, flattenVars, tableVars, htmlVars>>

\* job.result() ends the wait; the call returns, or raises the job's error.
JobResult(p) ==
    /\ proc[p].at = "waiting"
    /\ JobIsTerminal(jobs[p])
    /\ proc' = [proc EXCEPT ![p] =
                    IF jobs[p].error
                    THEN TaskRaised([proc[p] EXCEPT !.upload = "raised"], "LoadError")
                    ELSE TaskReturned(proc[p])]
    /\ UNCHANGED <<jobs, dest, ncalls, flattenVars, tableVars, htmlVars>>

Next ==
    \E p \in Procs :
        \/ main(p)
        \/ process_and_upload_csv(p)
        \/ process_and_upload_html(p)
        \/ process_and_upload_jsonl(p)
        \/ upload_data_to_bigquery(p)
        \/ JobStart(p)
        \/ JobFinish(p)
        \/ JobResult(p)

Spec == Init /\ [][Next]_vars

(***************************************************************************)
(* Claims about the loader and the flow.                                   *)
(***************************************************************************)
Finished(pr) == pr.upload \in {"returned", "raised"}

\* C1: a call with if_exists = "append" carrying m rows completes and leaves
\* the destination with its n earlier rows followed by the m new ones.
C1_AppendAddsRows ==
    \A p \in Procs :
        (proc[p].if_exists = "append" /\ Finished(proc[p])) =>
            /\ proc[p].upload = "returned"
            /\ RowCount(proc[p].post) = RowCount(proc[p].pre) + proc[p].rows
            /\ SubSeq(proc[p].post, 1, Len(proc[p].pre)) = proc[p].pre

\* C2: when a call with if_exists = "replace" carrying m rows returns, its job
\* has left the destination holding exactly the m rows of that call.
C2_ReplaceLeavesNewRows ==
    \A p \in Procs :
        (proc[p].if_exists = "replace" /\ proc[p].upload = "returned") =>
            /\ proc[p].post = <<Batch(proc[p].id, proc[p].rows)>>
            /\ RowCount(proc[p].post) = proc[p].rows

\* 5 rows are there, a Replace load of 3 rows returns, 3 rows are there.
C2_Witness ==
    \E p \in Procs :
        /\ proc[p].if_exists = "replace" /\ proc[p].upload = "returned"
        /\ RowCount(proc[p].pre) = 5 /\ proc[p].rows = 3
        /\ RowCount(dest[proc[p].table_id]) = 3

\* The input the claim calls malformed: Line-JSON that is not valid JSON, or
\* an HTML document without a table.
C7_Malformed(pr) ==
    \/ pr.task = "jsonl" /\ pr.blob.kind = "jsonl" /\ ~JsonLoads(pr.blob.text).ok
    \/ pr.task = "html" /\ pr.blob.kind = "html" /\ pr.blob.doc.tables = <<>>

\* C7: on such an input the reader raises, and the pipeline invocation ends
\* raised without having serialized a table or submitted a load job.
C7_MalformedInputRaises ==
    \A p \in Procs :
        C7_Malformed(proc[p]) =>
            /\ proc[p].read \notin {"none", "pending"}
            /\ proc[p].at = "raised"
            /\ ~proc[p].buffer /\ jobs[p].state = "none"

\* C8: a run of main in which a pipeline failed has still invoked every
\* pipeline by the time it ends.
C8_OthersStillInvoked ==
    \A p \in Procs :
        (proc[p].entry = "main" /\ proc[p].failed # {}
            /\ proc[p].at \in {"returned", "raised"}) => proc[p].invoked = Tasks

\* C8 amended: a failure of one pipeline ends the run of main: the failed
\* pipeline is the last one invoked, the pipelines after it in main's order
\* are not invoked, and neither is the transform.
C8_FailureEndsRun ==
    \A p \in Procs :
        (proc[p].entry = "main" /\ proc[p].failed # {}) =>
            /\ proc[p].at = "raised"
            /\ proc[p].stmt \in 1..Len(TaskAt)
            /\ proc[p].failed = {TaskAt[proc[p].stmt]}
            /\ proc[p].invoked = {TaskAt[i] : i \in 1..proc[p].stmt}
            /\ ~proc[p].dbt

C8_Witness ==
    \E p \in Procs :
        /\ proc[p].entry = "main" /\ proc[p].at = "raised"
        /\ proc[p].failed = {"csv"} /\ proc[p].invoked = {"csv"}

\* C9: trigger_dbt_flow has been invoked only in a run of main whose three
\* loads have all returned and in which nothing raised before it.
C9_DbtOnlyAfterLoads ==
    \A p \in Procs :
        proc[p].dbt =>
            /\ proc[p].entry = "main"
            /\ proc[p].loaded = Tasks
            /\ proc[p].failed = {}

\* A run of main in which a step raised has ended, the transform not invoked.
C9_Witness ==
    \E p \in Procs :
        /\ proc[p].entry = "main" /\ proc[p].exc # "none" /\ proc[p].at = "raised"
        /\ ~proc[p].dbt

\* C10: when upload_data_to_bigquery has returned normally, the load job it
\* submitted is in its terminal state.
C10_ReturnsAfterJobDone ==
    \A p \in Procs : proc[p].upload = "returned" => jobs[p].state = "DONE"

C10_Witness ==
    \E p \in Procs :
        /\ proc[p].upload = "returned" /\ proc[p].buffer
        /\ jobs[p].state = "DONE" /\ ~jobs[p].error

\* Two calls with if_exists = "replace" on one destination that have both
\* returned and ran concurrently: neither found the other's rows in the
\* destination when it was entered.
C11_Concurrent(p, q) ==
    /\ p # q
    /\ proc[p].if_exists = "replace" /\ proc[q].if_exists = "replace"
    /\ proc[p].upload = "returned" /\ proc[q].upload = "returned"
    /\ proc[p].table_id = proc[q].table_id
    /\ \A i \in 1..Len(proc[q].pre) : proc[q].pre[i].load # proc[p].id
    /\ \A i \in 1..Len(proc[p].pre) : proc[p].pre[i].load # proc[q].id

\* The loads whose rows a destination holds.
C11_Loads(content) == {content[i].load : i \in 1..Len(content)}

C11_OtherOutcome ==
    \E p, q \in Procs :
        /\ C11_Concurrent(p, q)
        /\ proc[p].id < proc[q].id /\ proc[p].rows # proc[q].rows
        /\ dest[proc[p].table_id] = <<Batch(proc[q].id, proc[q].rows)>>

(***************************************************************************)
(* Claims about the rows read_html_file skips.                             *)
(***************************************************************************)
\* The rows of a table in document order, those of its row sections included.
RECURSIVE C13_AllRows(_, _)
C13_AllRows(children, i) ==
    IF i > Len(children) THEN <<>>
    ELSE (IF children[i].tag = "tr" THEN <<children[i].cells>> ELSE children[i].rows)
         \o C13_AllRows(children, i + 1)

\* C13: of a document with one table, read_html_file skips the first row of
\* the table and nothing else: its output is made of all the other rows,
\* direct children of the table or rows of a thead or tbody, that pass the
\* reader's four-text test.
C13_SkipsOnlyFirstRow ==
    (html_table # NoTable /\ html_file.kind = "html" /\ Len(html_file.tables) = 1) =>
        LET rows == C13_AllRows(html_file.tables[1], 1)
            cells == [i \in 1..(Len(rows) - 1) |-> XPathCells(rows[i + 1], 1)]
        IN  html_table = html_convert_to_table(SelectSeq(cells, LAMBDA c : Len(c) = 4))

\* C15: a call whose if_exists is no key of the write-disposition dict raises
\* KeyError without having serialized the table or submitted a load job, and
\* no destination ever holds rows of that call.
C15_InvalidIfExistsRaises ==
    \A p \in Procs :
        (proc[p].upload # "none" /\ proc[p].if_exists \notin DOMAIN WriteDispositionMap) =>
            /\ proc[p].upload = "raised" /\ proc[p].exc = "KeyError"
            /\ ~proc[p].buffer
            /\ jobs[p].state = "none"
            /\ \A t \in TableIds : proc[p].id \notin C11_Loads(dest[t])

\* A call with if_exists = "fail" on a destination that holds rows has
\* raised, and the destination holds the rows it held.
C15_Witness ==
    \E p \in Procs :
        /\ proc[p].entry = "upload_data_to_bigquery" /\ proc[p].if_exists = "fail"
        /\ proc[p].upload = "raised" /\ proc[p].exc = "KeyError"
        /\ proc[p].pre # <<>> /\ dest[proc[p].table_id] = proc[p].pre

=============================================================================
